---- MODULE Spec2Model ----
(***************************************************************************)
(* A model of sas_parser_rust (src/src/main.rs): the parse functions       *)
(* (line_count, sql_count, get_sql, get_libname, get_password,             *)
(* export_count, null_count, find_date, find_file_name), process_dir and   *)
(* the reporting loop of main.                                             *)
(*                                                                         *)
(* Text is a sequence of lexemes.  A lexeme is an indivisible piece of     *)
(* text ("proc", " ", "Quit;", the line terminator "\n", ...); no proper   *)
(* part of a lexeme combines with a neighbour into one of the patterns     *)
(* the parse functions look for, so substring search on the text is        *)
(* subsequence search on the lexemes.  BadByte is a byte sequence that is  *)
(* not valid UTF-8.                                                        *)
(***************************************************************************)
EXTENDS Integers, Sequences, FiniteSets, TLC

VARIABLES
    \* one parse function running over one file
    scanner,            \* the parse function that runs
    content,            \* the text of the file it reads
    line_number,        \* enumerate() index of the next line (0-based)
    inside_sql_block,   \* get_sql: inside_sql_block
    sql_block,          \* get_sql: sql_block
    sql_start_line,     \* get_sql: sql_start_line
    results,            \* the Vec the parse function builds / returns
    pc,                 \* "loop" | "returned"
    \* a run of main
    tree,               \* the input directory, entries in read_dir order
    file_data,          \* main: file_data
    summary,            \* rows written to summary_*.csv
    detail,             \* rows written to detail_*.csv
    fi,                 \* index of the file_info the outer loop is at
    si,                 \* index of the parse_function the inner loop is at
    rpc,                \* "process_dir" | "summary" | "scan" | "done" | "panicked"
    prev                \* the reports of the previous run on the same tree

scanVars == <<scanner, content, line_number, inside_sql_block, sql_block,
              sql_start_line, results, pc>>
runVars == <<tree, file_data, summary, detail, fi, si, rpc, prev>>
vars == <<scanner, content, line_number, inside_sql_block, sql_block,
          sql_start_line, results, pc,
          tree, file_data, summary, detail, fi, si, rpc, prev>>

\* ---------------------------------------------------------------- bounds
MaxLines == 5
MaxPosLines == 2
MaxEntries == 2

\* ------------------------------------------------------------------ text
BadByte == "\\xFF"

Min(S) == CHOOSE x \in S : \A y \in S : x <= y

\* char::to_uppercase on one lexeme
to_uppercase_lexeme(t) ==
    CASE t = "proc"     -> "PROC"
      [] t = "sql"      -> "SQL"
      [] t = "Quit;"    -> "QUIT;"
      [] t = "quit;"    -> "QUIT;"
      [] t = "x"        -> "X"
      [] t = "libname"  -> "LIBNAME"
      [] t = "Password" -> "PASSWORD"
      [] t = "abc"      -> "ABC"
      [] t = "export"   -> "EXPORT"
      [] t = "_null_"   -> "_NULL_"
      [] t = "a.sas"    -> "A.SAS"
      [] t = "b.sas"    -> "B.SAS"
      [] OTHER          -> t

\* str::to_uppercase
to_uppercase(s) == [i \in 1..Len(s) |-> to_uppercase_lexeme(s[i])]

\* str::contains
contains(s, pat) ==
    \E i \in 0..(Len(s) - Len(pat)) : \A j \in 1..Len(pat) : s[i + j] = pat[j]

\* str::starts_with
starts_with(s, pat) ==
    Len(s) >= Len(pat) /\ \A j \in 1..Len(pat) : s[j] = pat[j]

\* str::matches(pat).count() for a one-lexeme pattern
matches_count(s, t) == Cardinality({i \in 1..Len(s) : s[i] = t})

\* char::is_whitespace
is_whitespace(t) == t \in {" ", "\t", "\n"}

\* [String]::join
RECURSIVE join(_, _)
join(v, sep) ==
    IF v = <<>> THEN <<>>
    ELSE IF Len(v) = 1 THEN v[1]
    ELSE v[1] \o <<sep>> \o join(Tail(v), sep)

\* str::lines / BufRead::lines: split at "\n", no empty last line
RECURSIVE split_lines(_, _, _)
split_lines(text, i, cur) ==
    IF i > Len(text) THEN (IF cur = <<>> THEN <<>> ELSE <<cur>>)
    ELSE IF text[i] = "\n" THEN <<cur>> \o split_lines(text, i + 1, <<>>)
    ELSE split_lines(text, i + 1, Append(cur, text[i]))

lines(text) == split_lines(text, 1, <<>>)

\* the text of a file whose lines are v, each line terminated
RECURSIVE file_text(_)
file_text(v) == IF v = <<>> THEN <<>> ELSE v[1] \o <<"\n">> \o file_text(Tail(v))

\* fs::read_to_string / String from a line: fails on bytes that are not UTF-8
is_utf8(text) == \A i \in 1..Len(text) : text[i] # BadByte

PROC_SQL == <<"PROC", " ", "SQL">>
QUIT == <<"QUIT;">>

\* ------------------------------------------------------------- payloads
\* format!("({}, {})", n, text)
fmt_line_text(n, text) == [fmt |-> "({}, {})", line |-> n, text |-> text]
\* format!("({})", text)
fmt_text(text) == [fmt |-> "({})", text |-> text]
\* format!("({}):{}", n, text)
fmt_line_colon_text(n, text) == [fmt |-> "({}):{}", line |-> n, text |-> text]
\* n.to_string()
fmt_count(n) == [fmt |-> "{}", count |-> n]

\* what a parse function leaves behind: its Vec, or a panic (an unwrap on Err)
Returned(v) == [panicked |-> FALSE, results |-> v]
Panicked == [panicked |-> TRUE, results |-> <<>>]

\* ------------------------------------------------------------- sql_count
\* the index after the run of whitespace that starts at i
RECURSIVE skip_whitespace(_, _)
skip_whitespace(text, i) ==
    IF i <= Len(text) /\ is_whitespace(text[i]) THEN skip_whitespace(text, i + 1)
    ELSE i

\* PROC\s+SQL matched at i: the index of SQL, or 0
regex_head_end(text, i) ==
    IF text[i] = "PROC" /\ i < Len(text) /\ is_whitespace(text[i + 1])
    THEN LET j == skip_whitespace(text, i + 1)
         IN  IF j <= Len(text) /\ text[j] = "SQL" THEN j ELSE 0
    ELSE 0

\* faulty variant: .* instead of .*? : the match runs to the last QUIT;
regex_match_end_greedy(text, i) ==
    LET h == regex_head_end(text, i)
        Q == {q \in (h + 1)..Len(text) : text[q] = "QUIT;"}
    IN  IF h = 0 \/ Q = {} THEN 0 ELSE CHOOSE q \in Q : \A r \in Q : r <= q

\* (?s)PROC\s+SQL.*?QUIT; matched at i: the index of its QUIT;, or 0
regex_match_end(text, i) ==
    LET h == regex_head_end(text, i)
        Q == {q \in (h + 1)..Len(text) : text[q] = "QUIT;"}
    IN  IF h = 0 \/ Q = {} THEN 0 ELSE Min(Q)

\* re.find_iter(text).count(): leftmost match at or after pos, then on after it
RECURSIVE find_iter_count(_, _)
find_iter_count(text, pos) ==
    LET S == {i \in pos..Len(text) : regex_match_end(text, i) # 0}
    IN  IF S = {} THEN 0
        ELSE 1 + find_iter_count(text, regex_match_end(text, Min(S)) + 1)

\* faulty variant: the content is not upper-cased before the search
sql_count_case_sensitive(file_id, file) ==
    IF ~file.readable \/ ~is_utf8(file.content) THEN Panicked
    ELSE Returned(<< <<file_id, "sql_count",
                       fmt_count(find_iter_count(file.content, 1))>> >>)

sql_count(file_id, file) ==
    IF ~file.readable \/ ~is_utf8(file.content) THEN Panicked
    ELSE LET upper == to_uppercase(file.content)
         IN  Returned(<< <<file_id, "sql_count",
                           fmt_count(find_iter_count(upper, 1))>> >>)

\* --------------------------------------------------------------- get_sql
\* faulty variant: a PROC SQL line opens a block also inside a block
opens_sql_block_nested(inside, upper_line) == contains(upper_line, PROC_SQL)

\* the condition of line 100
opens_sql_block(inside, upper_line) ==
    ~inside /\ contains(upper_line, PROC_SQL)

\* faulty variant: the upper-cased line is buffered instead of the line
get_sql_line_upper(st, n, line, file_id) ==
    LET upper_line == to_uppercase(line)
        opened == opens_sql_block(st.inside_sql_block, upper_line)
        inside == st.inside_sql_block \/ opened
        start  == IF opened THEN n + 1 ELSE st.sql_start_line
        block  == IF inside THEN Append(st.sql_block, upper_line) ELSE st.sql_block
        closed == inside /\ contains(upper_line, QUIT)
    IN  [inside_sql_block |-> inside /\ ~closed,
         sql_start_line   |-> start,
         sql_block        |-> IF closed THEN <<>> ELSE block,
         results          |-> IF closed
                              THEN Append(st.results,
                                     <<file_id, "get_sql",
                                       fmt_line_text(start, join(block, "\n"))>>)
                              ELSE st.results]

\* one iteration of the loop of get_sql, n the enumerate() index of line
get_sql_line(st, n, line, file_id) ==
    LET upper_line == to_uppercase(line)
        opened == opens_sql_block(st.inside_sql_block, upper_line)
        inside == st.inside_sql_block \/ opened
        start  == IF opened THEN n + 1 ELSE st.sql_start_line
        block  == IF inside THEN Append(st.sql_block, line) ELSE st.sql_block
        closed == inside /\ contains(upper_line, QUIT)
    IN  [inside_sql_block |-> inside /\ ~closed,
         sql_start_line   |-> start,
         sql_block        |-> IF closed THEN <<>> ELSE block,
         results          |-> IF closed
                              THEN Append(st.results,
                                     <<file_id, "get_sql",
                                       fmt_line_text(start, join(block, "\n"))>>)
                              ELSE st.results]

\* faulty variant: the block still open at end of file is emitted too
get_sql_return_flush(st, file_id) ==
    IF st.inside_sql_block
    THEN Append(st.results,
           <<file_id, "get_sql",
             fmt_line_text(st.sql_start_line, join(st.sql_block, "\n"))>>)
    ELSE st.results

\* the value get_sql returns when the loop is over
get_sql_return(st, file_id) == st.results

\* the locals of get_sql before the loop
get_sql_locals ==
    [inside_sql_block |-> FALSE, sql_start_line |-> 0,
     sql_block |-> <<>>, results |-> <<>>]

RECURSIVE get_sql_loop(_, _, _, _)
get_sql_loop(st, L, n, file_id) ==
    IF n >= Len(L) THEN st
    ELSE get_sql_loop(get_sql_line(st, n, L[n + 1], file_id), L, n + 1, file_id)

get_sql(file_id, file) ==
    IF ~file.readable \/ ~is_utf8(file.content) THEN Panicked
    ELSE Returned(get_sql_return(
             get_sql_loop(get_sql_locals, lines(file.content), 0, file_id),
             file_id))

\* ------------------------------------------------------ line_count & co.
\* line_count: reader.lines().count() counts the lines it cannot decode too
line_count(file_id, file) ==
    IF ~file.readable THEN Panicked
    ELSE Returned(<< <<file_id, "line_count",
                       fmt_count(Len(lines(file.content)))>> >>)

\* faulty variant: the file id is written where the count belongs
export_count_id(file_id, file) ==
    IF ~file.readable \/ ~is_utf8(file.content) THEN Panicked
    ELSE Returned(<< <<file_id, "export_count", fmt_text(<<file_id>>)>> >>)

export_count(file_id, file) ==
    IF ~file.readable \/ ~is_utf8(file.content) THEN Panicked
    ELSE Returned(<< <<file_id, "export_count",
                       fmt_count(matches_count(to_uppercase(file.content), "EXPORT"))>> >>)

\* faulty variant: the tuple in the order the comment on ParseFunction gives
null_count_name_first(file_id, file) ==
    IF ~file.readable \/ ~is_utf8(file.content) THEN Panicked
    ELSE Returned(<< <<"null_count", file_id,
                       fmt_count(matches_count(to_uppercase(file.content), "_NULL_"))>> >>)

null_count(file_id, file) ==
    IF ~file.readable \/ ~is_utf8(file.content) THEN Panicked
    ELSE Returned(<< <<file_id, "null_count",
                       fmt_count(matches_count(to_uppercase(file.content), "_NULL_"))>> >>)

\* --------------------------------------------------- positional scanners
\* line 124
libname_matches(line) == starts_with(to_uppercase(line), <<"LIBNAME">>)

\* get_libname: the loop body on line n (enumerate() index)
get_libname_line(n, line, file_id) ==
    IF libname_matches(line)
    THEN << <<file_id, "get_libname", fmt_text(line)>> >>
    ELSE <<>>

\* line 135: upper case, whitespace removed
password_modified_line(line) ==
    SelectSeq(to_uppercase(line), LAMBDA t : ~is_whitespace(t))

\* line 136
password_matches(line) ==
    /\ contains(password_modified_line(line), <<"PASSWORD", "=">>)
    /\ ~contains(password_modified_line(line), <<"&", "PASSWORD">>)

get_password_line(n, line, file_id) ==
    IF password_matches(line)
    THEN << <<file_id, "get_password",
              fmt_line_text(n + 1, password_modified_line(line))>> >>
    ELSE <<>>

\* the lexemes of the shape \d{4}-\d{2}-\d{2}
is_date_shaped(t) == t \in {"2023-06-30", "1999-12-31"}

\* the first / last character of a lexeme is a word character (\w)
starts_with_word_char(t) == t \notin {" ", "\t", "\n", "=", "&", ";", BadByte}
ends_with_word_char(t) == t \notin {" ", "\t", "\n", "=", "&", ";", "Quit;", "quit;", "QUIT;", BadByte}

\* \b\d{4}-\d{2}-\d{2}\b is_match
date_matches(line) ==
    \E i \in 1..Len(line) :
        /\ is_date_shaped(line[i])
        /\ i > 1 => ~ends_with_word_char(line[i - 1])
        /\ i < Len(line) => ~starts_with_word_char(line[i + 1])

find_date_line(n, line, file_id) ==
    IF date_matches(line)
    THEN << <<file_id, "find_date", fmt_line_text(n + 1, line)>> >>
    ELSE <<>>

\* lines 173-178: the first name of file_list the line contains ends the search
file_name_matches(line, file_list) ==
    \E k \in 1..Len(file_list) : contains(line, <<file_list[k]>>)

find_file_name_line(n, line, file_id, file_list) ==
    IF file_name_matches(line, file_list)
    THEN << <<file_id, "find_file_name", fmt_line_colon_text(n + 1, line)>> >>
    ELSE <<>>

\* the loop body of the positional scanner name
positional_line(name, n, line, file_id, file_list) ==
    CASE name = "get_libname"    -> get_libname_line(n, line, file_id)
      [] name = "get_password"   -> get_password_line(n, line, file_id)
      [] name = "find_date"      -> find_date_line(n, line, file_id)
      [] name = "find_file_name" -> find_file_name_line(n, line, file_id, file_list)

\* for (line_number, line) in content.lines().enumerate(), from index n on
RECURSIVE positional_loop(_, _, _, _, _)
positional_loop(name, L, n, file_id, file_list) ==
    IF n >= Len(L) THEN <<>>
    ELSE positional_line(name, n, L[n + 1], file_id, file_list)
            \o positional_loop(name, L, n + 1, file_id, file_list)

get_libname(file_id, file) ==
    IF ~file.readable \/ ~is_utf8(file.content) THEN Panicked
    ELSE Returned(positional_loop("get_libname", lines(file.content), 0, file_id, <<>>))

get_password(file_id, file) ==
    IF ~file.readable \/ ~is_utf8(file.content) THEN Panicked
    ELSE Returned(positional_loop("get_password", lines(file.content), 0, file_id, <<>>))

find_date(file_id, file) ==
    IF ~file.readable \/ ~is_utf8(file.content) THEN Panicked
    ELSE Returned(positional_loop("find_date", lines(file.content), 0, file_id, <<>>))

find_file_name(file_id, file, file_list) ==
    IF ~file.readable \/ ~is_utf8(file.content) THEN Panicked
    ELSE Returned(positional_loop("find_file_name", lines(file.content), 0,
                                  file_id, file_list))

\* ------------------------------------------- get_sql and sql_count at work
\* the lines the files of this specification are made of
SqlLineSet ==
    { <<"x">>,
      <<"proc", " ", "sql">>,
      <<"Quit;">>,
      <<"QUIT;", " ", "PROC", " ", "SQL">>,
      <<"PROC", " ", "SQL", " ", "quit;">>,
      <<"SQL", " ", "PROC">> }

SqlFiles == UNION {[1..n -> SqlLineSet] : n \in 0..MaxLines}

ScanFileId == "u1"

RunIdle ==
    /\ tree = <<>>
    /\ file_data = <<>>
    /\ summary = <<>>
    /\ detail = <<>>
    /\ fi = 0
    /\ si = 0
    /\ rpc = "idle"
    /\ prev = [present |-> FALSE]

ScanStart ==
    /\ line_number = 0
    /\ inside_sql_block = FALSE
    /\ sql_block = <<>>
    /\ sql_start_line = 0
    /\ results = <<>>
    /\ pc = "loop"

Init ==
    /\ scanner \in {"get_sql", "sql_count"}
    /\ \E v \in SqlFiles : content = file_text(v)
    /\ ScanStart
    /\ RunIdle

get_sql_state ==
    [inside_sql_block |-> inside_sql_block, sql_start_line |-> sql_start_line,
     sql_block |-> sql_block, results |-> results]

\* get_sql: the loop body on the next line
GetSqlLine ==
    /\ scanner = "get_sql"
    /\ pc = "loop"
    /\ LET L == lines(content)
       IN  /\ line_number < Len(L)
           /\ LET st == get_sql_line(get_sql_state, line_number,
                                     L[line_number + 1], ScanFileId)
              IN  /\ inside_sql_block' = st.inside_sql_block
                  /\ sql_start_line' = st.sql_start_line
                  /\ sql_block' = st.sql_block
                  /\ results' = st.results
    /\ line_number' = line_number + 1
    /\ UNCHANGED <<scanner, content, pc>>
    /\ UNCHANGED runVars

\* get_sql: the lines are exhausted, results is returned
GetSqlReturn ==
    /\ scanner = "get_sql"
    /\ pc = "loop"
    /\ line_number = Len(lines(content))
    /\ results' = get_sql_return(get_sql_state, ScanFileId)
    /\ pc' = "returned"
    /\ UNCHANGED <<scanner, content, line_number, inside_sql_block, sql_block,
                   sql_start_line>>
    /\ UNCHANGED runVars

\* sql_count on the whole file
SqlCount ==
    /\ scanner = "sql_count"
    /\ pc = "loop"
    /\ results' = sql_count(ScanFileId, [readable |-> TRUE, content |-> content]).results
    /\ pc' = "returned"
    /\ UNCHANGED <<scanner, content, line_number, inside_sql_block, sql_block,
                   sql_start_line>>
    /\ UNCHANGED runVars

Next == GetSqlLine \/ GetSqlReturn \/ SqlCount

Spec == Init /\ [][Next]_vars

\* ------------------------------------------------- properties of get_sql
FileLines == lines(content)
HasProcSql(line) == contains(to_uppercase(line), PROC_SQL)
HasQuit(line) == contains(to_uppercase(line), QUIT)

\* the first line of L at or after from that satisfies the pattern, or 0
FirstLine(L, from, pat) ==
    LET S == {k \in from..Len(L) : contains(to_uppercase(L[k]), pat)}
    IN  IF S = {} THEN 0 ELSE Min(S)

\* the blocks <<first line, last line>> of L from line from on: a block opens
\* at the first PROC SQL line outside a block and closes at the first QUIT;
\* line at or after its opening line
RECURSIVE ClosedBlocks(_, _)
ClosedBlocks(L, from) ==
    LET s == FirstLine(L, from, PROC_SQL)
        e == IF s = 0 THEN 0 ELSE FirstLine(L, s, QUIT)
    IN  IF e = 0 THEN <<>> ELSE << <<s, e>> >> \o ClosedBlocks(L, e + 1)

\* the opening line of the block of L that no line closes, or 0
OpenBlock(L) ==
    LET B == ClosedBlocks(L, 1)
    IN  FirstLine(L, IF B = <<>> THEN 1 ELSE B[Len(B)][2] + 1, PROC_SQL)

\* one finding per closed block: (block_start, its lines joined by newline)
BlockFindings(L) ==
    LET B == ClosedBlocks(L, 1)
    IN  [k \in 1..Len(B) |->
            <<ScanFileId, "get_sql",
              fmt_line_text(B[k][1], join(SubSeq(L, B[k][1], B[k][2]), "\n"))>>]

\* the number of lines of a payload text
NumLines(text) == 1 + Cardinality({i \in 1..Len(text) : text[i] = "\n"})

\* C1: get_sql walks the lines in order, 1-based: Outside, a line whose upper
\* case contains PROC SQL opens a block and is recorded as block_start; every
\* line from the opening line up to and including the first line whose upper
\* case contains QUIT; is buffered verbatim; at that line exactly one finding
\* (block_start, buffered lines joined by newline) is emitted, the buffer is
\* cleared and the extractor is Outside again.
C1_GetSqlBlocks ==
    scanner = "get_sql" =>
        LET L == FileLines
            Read == SubSeq(L, 1, line_number)
            open == OpenBlock(Read)
        IN  /\ results = BlockFindings(Read)
            /\ inside_sql_block <=> open # 0
            /\ inside_sql_block =>
                  /\ sql_start_line = open
                  /\ sql_block = SubSeq(L, sql_start_line, line_number)
            /\ ~inside_sql_block => sql_block = <<>>

\* a 5-line file whose lines 2-4 are proc sql ... Quit; has been read: one
\* finding, block_start 2, the three lines as they are in the file
C1_Witness ==
    /\ scanner = "get_sql"
    /\ pc = "returned"
    /\ FileLines = << <<"x">>, <<"proc", " ", "sql">>, <<"x">>, <<"Quit;">>, <<"x">> >>
    /\ results = << <<ScanFileId, "get_sql",
                      fmt_line_text(2, <<"proc", " ", "sql", "\n", "x", "\n", "Quit;">>)>> >>

\* C3: when get_sql reaches the end of the file inside a block, no finding is
\* emitted for that block, and the findings returned are those of the blocks
\* closed before it.
C3_UnterminatedBlock ==
    (scanner = "get_sql" /\ pc = "returned" /\ inside_sql_block) =>
        /\ \A k \in sql_start_line..Len(FileLines) : ~HasQuit(FileLines[k])
        /\ \A k \in 1..Len(results) :
              results[k][3].line + NumLines(results[k][3].text) - 1 < sql_start_line
        /\ results = BlockFindings(SubSeq(FileLines, 1, sql_start_line - 1))

\* a block was closed, a later one is still open at the end of the file
C3_Witness ==
    /\ scanner = "get_sql"
    /\ pc = "returned"
    /\ inside_sql_block
    /\ sql_start_line < Len(FileLines)
    /\ Len(results) = 1

\* C9: get_sql does not nest: inside a block a PROC SQL line is only buffered
\* and block_start stays; a line with QUIT; and PROC SQL met inside a block
\* closes it and leaves the extractor Outside; the blocks emitted cover
\* disjoint line ranges with increasing block_start, and there are never more
\* findings than lines containing QUIT;.
C9_LineInsideBlock ==
    (scanner = "get_sql" /\ inside_sql_block /\ line_number' = line_number + 1) =>
        LET line == FileLines[line_number + 1]
        IN  /\ sql_start_line' = sql_start_line
            /\ HasQuit(line) =>
                  /\ ~inside_sql_block'
                  /\ sql_block' = <<>>
                  /\ Len(results') = Len(results) + 1
                  /\ results'[Len(results')][3].line = sql_start_line
            /\ ~HasQuit(line) =>
                  /\ inside_sql_block'
                  /\ sql_block' = Append(sql_block, line)
                  /\ results' = results

C9_DisjointBlocks ==
    scanner = "get_sql" =>
        LET L == FileLines
        IN  /\ \A k \in 1..(Len(results) - 1) :
                  results[k][3].line + NumLines(results[k][3].text) - 1
                     < results[k + 1][3].line
            /\ \A k \in 1..Len(results) :
                  /\ results[k][3].line >= 1
                  /\ results[k][3].line + NumLines(results[k][3].text) - 1
                        <= line_number
            /\ Len(results) <= Cardinality({k \in 1..line_number : HasQuit(L[k])})

C9_Flat == []C9_DisjointBlocks /\ [][C9_LineInsideBlock]_vars

\* inside a block a line with QUIT; and PROC SQL was read, and later a second
\* block was emitted
C9_Witness ==
    /\ scanner = "get_sql"
    /\ pc = "returned"
    /\ Len(results) = 2
    /\ \E k \in 1..Len(FileLines) :
          /\ FileLines[k] = <<"QUIT;", " ", "PROC", " ", "SQL">>
          /\ results[1][3].line < k
          /\ results[1][3].line + NumLines(results[1][3].text) - 1 = k
    /\ \E k \in 1..Len(FileLines) :
          /\ HasProcSql(FileLines[k])
          /\ results[2][3].line < k
          /\ k < results[2][3].line + NumLines(results[2][3].text)

\* ----------------------------------------------- properties of sql_count
\* PROC, one space, SQL at i..i+2 of the text
LiteralProcSql(text, i) ==
    i + 2 <= Len(text) /\ SubSeq(text, i, i + 2) = PROC_SQL

\* PROC at i and SQL at j with nothing but whitespace (at least one) between
SpacedProcSql(text, i, j) ==
    /\ text[i] = "PROC"
    /\ j > i + 1
    /\ text[j] = "SQL"
    /\ \A k \in (i + 1)..(j - 1) : is_whitespace(text[k])

\* the first QUIT; of the text after index j, or 0
NextQuit(text, j) ==
    LET Q == {q \in (j + 1)..Len(text) : text[q] = "QUIT;"}
    IN  IF Q = {} THEN 0 ELSE Min(Q)

\* the spans <<first index, last index>> from a PROC SQL written with one
\* space to the next QUIT;
LiteralSpans(text) ==
    {<<i, NextQuit(text, i + 2)>> :
        i \in {h \in 1..Len(text) :
                 LiteralProcSql(text, h) /\ NextQuit(text, h + 2) # 0}}

\* the spans from PROC, whitespace, SQL to the next QUIT;
SpacedSpans(text) ==
    {<<p[1], NextQuit(text, p[2])>> :
        p \in {h \in {i \in 1..Len(text) : text[i] = "PROC"} \X (1..Len(text)) :
                 SpacedProcSql(text, h[1], h[2]) /\ NextQuit(text, h[2]) # 0}}

\* the largest number of spans of S no two of which overlap
MaxDisjoint(S) ==
    LET D == {T \in SUBSET S :
                \A a \in T : \A b \in T : a = b \/ a[2] < b[1] \/ b[2] < a[1]}
    IN  CHOOSE n \in 0..Cardinality(S) :
            /\ \E T \in D : Cardinality(T) = n
            /\ \A T \in D : Cardinality(T) <= n

SqlCountIs(n) ==
    results = << <<ScanFileId, "sql_count", fmt_count(n)>> >>

\* C6 (as stated): sql_count returns the case-insensitive number of
\* non-overlapping lazily matched spans from a 'PROC SQL' occurrence to the
\* next 'QUIT;' after it: 1 for one span, 2 for two, 0 when no QUIT; follows.
C6_Original ==
    (scanner = "sql_count" /\ pc = "returned") =>
        SqlCountIs(MaxDisjoint(LiteralSpans(to_uppercase(content))))

\* C6 (amended): sql_count returns the case-insensitive number of
\* non-overlapping lazily matched spans from an occurrence of PROC, one or more
\* whitespace characters (space, tab, newline), SQL to the next QUIT; after it:
\* 1 for one span, 2 for two, 0 when no QUIT; follows.
C6_SqlCount ==
    (scanner = "sql_count" /\ pc = "returned") =>
        LET u == to_uppercase(content)
        IN  /\ SqlCountIs(MaxDisjoint(SpacedSpans(u)))
            /\ (\A i \in 1..Len(u) : \A j \in (i + 2)..Len(u) :
                   SpacedProcSql(u, i, j) => NextQuit(u, j) = 0)
                  => SqlCountIs(0)

\* two spans in mixed case, each crossing lines, were counted as 2
C6_Witness ==
    /\ scanner = "sql_count"
    /\ pc = "returned"
    /\ SqlCountIs(2)
    /\ FileLines = << <<"proc", " ", "sql">>, <<"Quit;">>,
                      <<"proc", " ", "sql">>, <<"x">>, <<"Quit;">> >>

\* ------------------------------------------------ get_sql against sql_count
\* the number of places of a line where a marker (PROC SQL with one space,
\* or QUIT;) begins
NumMarkers(line) ==
    LET u == to_uppercase(line)
    IN  Cardinality({i \in 1..Len(u) : LiteralProcSql(u, i) \/ u[i] = "QUIT;"})

\* every line has at most one marker, and PROC and SQL are nowhere separated
\* by other whitespace than one space (so no marker is split across lines)
OneMarkerPerLine ==
    LET u == to_uppercase(content)
    IN  /\ \A k \in 1..Len(FileLines) : NumMarkers(FileLines[k]) <= 1
        /\ \A i \in 1..Len(u) : \A j \in (i + 2)..Len(u) :
              SpacedProcSql(u, i, j) => LiteralProcSql(u, i)

\* C10: on a file each line of which has at most one marker (PROC SQL with a
\* single space, or QUIT;, never both, none split across lines), get_sql
\* emits as many findings as sql_count counts, 0 included for a trailing
\* PROC SQL without QUIT;.
C10_SameCount ==
    (scanner = "get_sql" /\ pc = "returned" /\ OneMarkerPerLine) =>
        sql_count(ScanFileId, [readable |-> TRUE, content |-> content]).results
            = << <<ScanFileId, "sql_count", fmt_count(Len(results))>> >>

\* two blocks were extracted and a third PROC SQL has no QUIT;
C10_Witness ==
    /\ scanner = "get_sql"
    /\ pc = "returned"
    /\ OneMarkerPerLine
    /\ Len(results) = 2
    /\ inside_sql_block

\* ------------------------------------------ the positional scanners at work
PosLineSet ==
    { <<"libname", " ", "x">>,
      <<" ", "libname">>,
      <<"Password", " ", "=", "abc">>,
      <<"Password", "=", "&", "Password">>,
      <<"2023-06-30">>,
      <<"x", "2023-06-30">>,
      <<"2023-6-30">>,
      <<"a.sas", " ", "b.sas">>,
      <<"LIBNAME", " ", "a.sas", " ", "2023-06-30">> }

PosFiles == UNION {[1..n -> PosLineSet] : n \in 0..MaxPosLines}

Positional == {"get_libname", "get_password", "find_date", "find_file_name"}

\* the file_list find_file_name is given
KnownFileNames == <<"a.sas", "b.sas">>

InitPos ==
    /\ scanner \in Positional
    /\ \E v \in PosFiles : content = file_text(v)
    /\ ScanStart
    /\ RunIdle

PositionalLine(name) ==
    /\ scanner = name
    /\ pc = "loop"
    /\ line_number < Len(lines(content))
    /\ results' = results \o positional_line(name, line_number,
                                lines(content)[line_number + 1],
                                ScanFileId, KnownFileNames)
    /\ line_number' = line_number + 1
    /\ UNCHANGED <<scanner, content, inside_sql_block, sql_block, sql_start_line, pc>>
    /\ UNCHANGED runVars

GetLibnameLine == PositionalLine("get_libname")
GetPasswordLine == PositionalLine("get_password")
FindDateLine == PositionalLine("find_date")
FindFileNameLine == PositionalLine("find_file_name")

\* the lines are exhausted, results is returned
PositionalReturn ==
    /\ scanner \in Positional
    /\ pc = "loop"
    /\ line_number = Len(lines(content))
    /\ pc' = "returned"
    /\ UNCHANGED <<scanner, content, line_number, inside_sql_block, sql_block,
                   sql_start_line, results>>
    /\ UNCHANGED runVars

NextPos ==
    \/ GetLibnameLine
    \/ GetPasswordLine
    \/ FindDateLine
    \/ FindFileNameLine
    \/ PositionalReturn

SpecPos == InitPos /\ [][NextPos]_vars

\* the line matches the pattern the positional scanner looks for
LineMatches(name, line) ==
    CASE name = "get_libname"    -> libname_matches(line)
      [] name = "get_password"   -> password_matches(line)
      [] name = "find_date"      -> date_matches(line)
      [] name = "find_file_name" -> file_name_matches(line, KnownFileNames)

\* C7: each positional scanner emits exactly one finding per matching line
\* and none for another line, and the payload of every finding includes the
\* 1-based number of the matching line together with the matched or
\* normalized text of the line.
C7_PositionalFindings ==
    scanner \in Positional =>
        LET M == {k \in 1..line_number : LineMatches(scanner, FileLines[k])}
        IN  /\ Len(results) = Cardinality(M)
            /\ \A k \in 1..Len(results) :
                  /\ results[k][2] = scanner
                  /\ "line" \in DOMAIN results[k][3]
                  /\ results[k][3].line \in M
                  /\ Cardinality({m \in M : m <= results[k][3].line}) = k
                  /\ results[k][3].text \in
                        {FileLines[results[k][3].line],
                         password_modified_line(FileLines[results[k][3].line])}

\* ------------------------------------------------------------- a run of main
\* faulty variant: two parse functions registered in the other order
parse_functions_swapped ==
    <<"line_count", "get_sql", "sql_count", "get_libname", "get_password",
      "export_count", "null_count", "find_date">>

\* main: the parse functions, in the order they are registered
parse_functions ==
    <<"line_count", "sql_count", "get_sql", "get_libname", "get_password",
      "export_count", "null_count", "find_date">>

\* parse_function(&file_info.uuid, &file_path)
call_parse_function(name, file_id, file) ==
    CASE name = "line_count"   -> line_count(file_id, file)
      [] name = "sql_count"    -> sql_count(file_id, file)
      [] name = "get_sql"      -> get_sql(file_id, file)
      [] name = "get_libname"  -> get_libname(file_id, file)
      [] name = "get_password" -> get_password(file_id, file)
      [] name = "export_count" -> export_count(file_id, file)
      [] name = "null_count"   -> null_count(file_id, file)
      [] name = "find_date"    -> find_date(file_id, file)

\* the values Uuid::new_v4() draws from; within a run no value is drawn twice
Uuids == {"u1", "u2", "u3"}

\* the files of the trees: their bytes, and whether File::open succeeds
RichFile ==
    [kind |-> "file", readable |-> TRUE,
     content |-> file_text(<< <<"libname", " ", "x">>,
                              <<"proc", " ", "sql">>,
                              <<"Password", "=", "abc">>,
                              <<"Quit;">>,
                              <<"LIBNAME", " ", "2023-06-30">>,
                              <<"export", " ", "_null_">>,
                              <<"2023-06-30">>,
                              <<"PROC", " ", "SQL", " ", "quit;">> >>)]
PlainFile ==
    [kind |-> "file", readable |-> TRUE, content |-> <<"x", "\n", "x">>]
NotUtf8File ==
    [kind |-> "file", readable |-> TRUE, content |-> <<"x", "\n", BadByte, "\n">>]
UnreadableFile ==
    [kind |-> "file", readable |-> FALSE, content |-> <<"x", "\n">>]

TreeFiles == {RichFile, PlainFile, NotUtf8File, UnreadableFile}
SubDirs == {[kind |-> "dir", entries |-> <<>>]}
              \cup {[kind |-> "dir", entries |-> <<f>>] : f \in TreeFiles}
Trees == UNION {[1..n -> TreeFiles \cup SubDirs] : n \in 0..MaxEntries}

\* process_dir: the files under dir, entries from the k-th on, in the order
\* they are pushed; an entry is named by its place in read_dir's order
RECURSIVE process_dir(_, _, _)
process_dir(dir, entries, k) ==
    IF k > Len(entries) THEN <<>>
    ELSE (IF entries[k].kind = "file"
          THEN << [name |-> k, directory |-> dir, size |-> Len(entries[k].content)] >>
          ELSE process_dir(Append(dir, k), entries[k].entries, 1))
         \o process_dir(dir, entries, k + 1)

\* the file at a path of the tree
RECURSIVE entry_at(_, _)
entry_at(entries, path) ==
    IF Len(path) = 1 THEN entries[path[1]]
    ELSE entry_at(entries[path[1]].entries, Tail(path))

\* format!("{}/{}", &file_info.directory, &file_info.name)
file_path(file_info) == Append(file_info.directory, file_info.name)

\* the record written to the summary for one FileInfo
summary_record(file_info) ==
    <<file_info.uuid, file_info.name, file_info.directory, file_info.size>>

ScanIdle ==
    /\ scanner = "none"
    /\ content = <<>>
    /\ line_number = 0
    /\ inside_sql_block = FALSE
    /\ sql_block = <<>>
    /\ sql_start_line = 0
    /\ results = <<>>
    /\ pc = "idle"

InitRun ==
    /\ tree \in Trees
    /\ file_data = <<>>
    /\ summary = <<>>
    /\ detail = <<>>
    /\ fi = 0
    /\ si = 0
    /\ rpc = "process_dir"
    /\ prev = [present |-> FALSE]
    /\ ScanIdle

\* process_dir: the next regular file gets a FileInfo with a new uuid
ProcessDirEntry ==
    /\ rpc = "process_dir"
    /\ Len(file_data) < Len(process_dir(<<>>, tree, 1))
    /\ \E u \in Uuids \ {file_data[k].uuid : k \in 1..Len(file_data)} :
          LET f == process_dir(<<>>, tree, 1)[Len(file_data) + 1]
          IN  file_data' = Append(file_data,
                  [uuid |-> u, name |-> f.name, directory |-> f.directory,
                   size |-> f.size])
    /\ UNCHANGED <<tree, summary, detail, fi, si, rpc, prev>>
    /\ UNCHANGED scanVars

\* main: process_dir is over, the summary is written, the detail loop starts
WriteSummary ==
    /\ rpc = "process_dir"
    /\ Len(file_data) = Len(process_dir(<<>>, tree, 1))
    /\ summary' = [k \in 1..Len(file_data) |-> summary_record(file_data[k])]
    /\ fi' = 1
    /\ si' = 1
    /\ rpc' = "scan"
    /\ UNCHANGED <<tree, file_data, detail, prev>>
    /\ UNCHANGED scanVars

\* main: one parse function returns, its results are written to the detail
ParseFunctionReturns ==
    /\ rpc = "scan"
    /\ fi <= Len(file_data)
    /\ LET r == call_parse_function(parse_functions[si], file_data[fi].uuid,
                                    entry_at(tree, file_path(file_data[fi])))
       IN  /\ ~r.panicked
           /\ detail' = detail \o r.results
    /\ IF si < Len(parse_functions)
       THEN si' = si + 1 /\ fi' = fi
       ELSE si' = 1 /\ fi' = fi + 1
    /\ UNCHANGED <<tree, file_data, summary, rpc, prev>>
    /\ UNCHANGED scanVars

\* main: one parse function panics (unwrap on an Err), the process ends
ParseFunctionPanics ==
    /\ rpc = "scan"
    /\ fi <= Len(file_data)
    /\ call_parse_function(parse_functions[si], file_data[fi].uuid,
                           entry_at(tree, file_path(file_data[fi]))).panicked
    /\ rpc' = "panicked"
    /\ UNCHANGED <<tree, file_data, summary, detail, fi, si, prev>>
    /\ UNCHANGED scanVars

\* main: the loops are over, the detail is flushed, Ok(())
Finish ==
    /\ rpc = "scan"
    /\ fi > Len(file_data)
    /\ rpc' = "done"
    /\ UNCHANGED <<tree, file_data, summary, detail, fi, si, prev>>
    /\ UNCHANGED scanVars

\* the program is run again on the unchanged tree; it writes new reports
RunAgain ==
    /\ rpc \in {"done", "panicked"}
    /\ prev' = [present |-> TRUE, summary |-> summary, detail |-> detail,
                rpc |-> rpc]
    /\ file_data' = <<>>
    /\ summary' = <<>>
    /\ detail' = <<>>
    /\ fi' = 0
    /\ si' = 0
    /\ rpc' = "process_dir"
    /\ UNCHANGED tree
    /\ UNCHANGED scanVars

NextRun ==
    \/ ProcessDirEntry
    \/ WriteSummary
    \/ ParseFunctionReturns
    \/ ParseFunctionPanics
    \/ Finish
    \/ RunAgain

SpecRun == InitRun /\ [][NextRun]_vars

\* --------------------------------------------------- properties of a run
Finished == rpc \in {"done", "panicked"}

\* the file a FileInfo stands for
FileOf(file_info) == entry_at(tree, file_path(file_info))

\* C2: an error of one parse function on one file (the file cannot be opened
\* or read, or is not valid UTF-8) does not abort the batch: the run ends
\* normally and the findings of every other parse function and every other
\* file are produced.
C2_ErrorsDoNotAbort ==
    /\ rpc # "panicked"
    /\ rpc = "done" =>
          \A k \in 1..Len(file_data) : \A j \in 1..Len(parse_functions) :
              LET r == call_parse_function(parse_functions[j], file_data[k].uuid,
                                           FileOf(file_data[k]))
              IN  ~r.panicked =>
                     \A m \in 1..Len(r.results) :
                        \E d \in 1..Len(detail) : detail[d] = r.results[m]

\* C4 (as stated): two runs on an unchanged tree write identical detail rows
\* (file id, scanner name, payload).
C4_Original ==
    (prev.present /\ Finished) => detail = prev.detail

\* the place in a summary of the row with the given id
SummaryIndex(rows, id) == CHOOSE k \in 1..Len(rows) : rows[k][1] = id

\* C4 (amended): two runs on an unchanged tree write detail rows with the
\* same scanner names and payloads in the same order; the file id of a row is
\* generated anew in each run and may differ, but it is the id of the same
\* file in the summary of its run.
C4_SameFindings ==
    (prev.present /\ Finished) =>
        /\ rpc = prev.rpc
        /\ Len(summary) = Len(prev.summary)
        /\ \A k \in 1..Len(summary) :
              /\ summary[k][2] = prev.summary[k][2]
              /\ summary[k][3] = prev.summary[k][3]
              /\ summary[k][4] = prev.summary[k][4]
        /\ Len(detail) = Len(prev.detail)
        /\ \A k \in 1..Len(detail) :
              /\ detail[k][2] = prev.detail[k][2]
              /\ detail[k][3] = prev.detail[k][3]
              /\ SummaryIndex(summary, detail[k][1])
                    = SummaryIndex(prev.summary, prev.detail[k][1])

\* the second run is over, both wrote findings, under different file ids
C4_Witness ==
    /\ prev.present
    /\ rpc = "done"
    /\ Len(detail) > Len(parse_functions)
    /\ detail[1][1] # prev.detail[1][1]
    /\ detail[1][2] = prev.detail[1][2]

\* the order in which the parse functions are registered
RegistrationOrder ==
    <<"line_count", "sql_count", "get_sql", "get_libname", "get_password",
      "export_count", "null_count", "find_date">>

FileIndex(id) == CHOOSE k \in 1..Len(file_data) : file_data[k].uuid = id
ScannerIndex(name) ==
    CHOOSE k \in 1..Len(RegistrationOrder) : RegistrationOrder[k] = name

\* the get_libname rows of the detail for the file with the given id
LibnameRows(id) ==
    SelectSeq(detail, LAMBDA d : d[1] = id /\ d[2] = "get_libname")

\* row i of the detail is rightly before row j
C5_Before(i, j) ==
    \/ FileIndex(detail[i][1]) < FileIndex(detail[j][1])
    \/ /\ detail[i][1] = detail[j][1]
       /\ \/ ScannerIndex(detail[i][2]) < ScannerIndex(detail[j][2])
          \/ /\ detail[i][2] = detail[j][2]
             /\ \/ /\ "line" \in DOMAIN detail[i][3]
                   /\ "line" \in DOMAIN detail[j][3]
                   /\ detail[i][3].line < detail[j][3].line
                \/ detail[i][2] = "get_libname"

C5_Ordered ==
    /\ \A i \in 1..Len(detail) : \A j \in (i + 1)..Len(detail) : C5_Before(i, j)
    /\ \A k \in 1..Len(file_data) :
          LET R == LibnameRows(file_data[k].uuid)
              M == SelectSeq(lines(FileOf(file_data[k]).content),
                             LAMBDA l : libname_matches(l))
          IN  /\ Len(R) <= Len(M)
              /\ \A m \in 1..Len(R) : R[m][3].text = M[m]

C5_AppendOnly ==
    ~Finished => /\ Len(detail') >= Len(detail)
                 /\ SubSeq(detail', 1, Len(detail)) = detail

\* C5: the detail rows are written in a fixed order: files in the order their
\* FileInfo records were collected, for each file the findings in the order
\* the parse functions are registered (line_count, sql_count, get_sql,
\* get_libname, get_password, export_count, null_count, find_date), within one
\* parse function in the order of the lines; rows are only appended, never
\* reordered or removed.
C5_DetailOrder == []C5_Ordered /\ [][C5_AppendOnly]_vars

\* the rows of two files were written, each with two get_sql findings
C5_Witness ==
    /\ rpc = "done"
    /\ Len(file_data) = 2
    /\ \A k \in 1..2 :
          Len(SelectSeq(detail, LAMBDA d : d[1] = file_data[k].uuid
                                              /\ d[2] = "get_sql")) = 2

C8_RowsOfThisRun ==
    \A k \in 1..Len(detail) :
        /\ \E f \in 1..Len(file_data) : file_data[f].uuid = detail[k][1]
        /\ \E r \in 1..Len(summary) : summary[r][1] = detail[k][1]
        /\ \E n \in 1..Len(parse_functions) : parse_functions[n] = detail[k][2]

C8_RowsOfThisCall ==
    (rpc = "scan" /\ fi <= Len(file_data)) =>
        \A k \in (Len(detail) + 1)..Len(detail') :
            /\ detail'[k][1] = file_data[fi].uuid
            /\ detail'[k][2] = parse_functions[si]

\* C8: at every point of a run every row of the detail carries the id of a
\* FileInfo that process_dir produced in this run, which is in the summary,
\* and the name of the parse function that produced it.
C8_FileIds == []C8_RowsOfThisRun /\ [][C8_RowsOfThisCall]_vars

\* a second run is writing rows; its ids are not those of the first
C8_Witness ==
    /\ prev.present
    /\ rpc = "scan"
    /\ Len(detail) > Len(parse_functions)
    /\ \A k \in 1..Len(prev.detail) :
          \A f \in 1..Len(file_data) : file_data[f].uuid # prev.detail[k][1]
    /\ Len(prev.detail) > 0

====
